---- MODULE Spec2Model ----
(***************************************************************************)
(* A model of the two tutorial documents of the repository:                *)
(*                                                                         *)
(*   - the notebook on critical values: its three code cells (Gaussian,    *)
(*     Student's t, Chi-squared), run in one Python kernel, and the        *)
(*     decision rules its prose states for one- and two-tailed tests;      *)
(*   - the R Markdown document with four regression recipes (CART,         *)
(*     bagging, random forest, Cubist), run in one R workspace.            *)
(*                                                                         *)
(* A session is either a Python kernel or an R workspace.  A script (a     *)
(* cell or a recipe) runs statement by statement; the globals of the       *)
(* session persist from one script to the next.  The statistics and        *)
(* learning libraries are not part of the repository: a quantile or        *)
(* cumulative function is known only at the arguments whose results the    *)
(* notebook records, and is an unevaluated term elsewhere; a prediction    *)
(* is a choice among bounded deviations from the observed values.          *)
(***************************************************************************)
EXTENDS Integers, Sequences, FiniteSets

(***************************************************************************)
(* Bounds of the model.                                                    *)
(***************************************************************************)
\* largest deviation of a prediction from the observed value (thousandths)
MaxErr == 2
\* test statistics and critical values range over -MaxStat..MaxStat
MaxStat == 3

(***************************************************************************)
(* Values of the two languages.                                            *)
(***************************************************************************)
\* a name that is not bound
Undef == [kind |-> "undef"]

\* a float, by its printed decimal digits: ip . frac[1] frac[2] ...
Dec(ip, frac) == [kind |-> "num", ip |-> ip, frac |-> frac]

IntV(n) == [kind |-> "int", n |-> n]

\* a distribution object of scipy.stats bound by an import
DistObj(d) == [kind |-> "dist", dist |-> d]

\* the result of a library call the notebook records no output for
Term(fn, d, args) == [kind |-> "term", fn |-> fn, dist |-> d, args |-> args]

\* p = 0.95
P95 == Dec(0, <<9, 5>>)

\* alpha = 0.05 (probability = 1 - alpha)
P05 == Dec(0, <<0, 5>>)

(***************************************************************************)
(* scipy.stats, as far as the notebook records it.                         *)
(***************************************************************************)
NormPpf95 == Dec(1, <<6,4,4,8,5,3,6,2,6,9,5,1,4,7,2,2>>)
TPpf95 == Dec(1, <<8,1,2,4,6,1,1,2,2,8,1,0,7,3,3,5>>)
Chi2Ppf95 == Dec(18, <<3,0,7,0,3,8,0,5,3,2,7,5,1,4,3>>)
TCdfBack == Dec(0, <<9,4,9,9,9,9,9,9,9,9,9,9,9,2,3>>)

\* dist.ppf(args): the percent point function
LibPpf(d, args) ==
    IF d = DistObj("norm") /\ args = <<P95>> THEN NormPpf95
    ELSE IF d = DistObj("t") /\ args = <<P95, IntV(10)>> THEN TPpf95
    ELSE IF d = DistObj("chi2") /\ args = <<P95, IntV(10)>> THEN Chi2Ppf95
    ELSE Term("ppf", d, args)

\* dist.cdf(args): the cumulative function
LibCdf(d, args) ==
    IF d = DistObj("norm") /\ args = <<NormPpf95>> THEN P95
    ELSE IF d = DistObj("t") /\ args = <<TPpf95, IntV(10)>> THEN TCdfBack
    ELSE IF d = DistObj("chi2") /\ args = <<Chi2Ppf95, IntV(10)>> THEN P95
    ELSE Term("cdf", d, args)

(***************************************************************************)
(* The statements of the scripts.                                          *)
(***************************************************************************)
Stmt(k, target, src, args, val, calls) ==
    [k |-> k, target |-> target, src |-> src, args |-> args, val |-> val,
     calls |-> calls]

\* from scipy.stats import d
PyImport(d) == Stmt("import", d, d, <<>>, Undef, {})
\* target = literal
PyConst(target, v) == Stmt("const", target, "", <<>>, v, {})
\* value = d.ppf(args)
PyPpf(d, args) == Stmt("ppf", "value", d, args, Undef, {})
\* p = d.cdf(args)
PyCdf(d, args) == Stmt("cdf", "p", d, args, Undef, {})
\* print(name)
PyPrint(name) == Stmt("pyprint", "", "", <<name>>, Undef, {})

\* library(pkg)
RLibrary(pkg) == Stmt("library", "", pkg, <<>>, Undef, {"library"})
\* data(longley)
RData == Stmt("data", "longley", "", <<>>, Undef, {"data"})
\* fit <- fn(..., longley ...), with the functions the call names
RFit(fn, calls) == Stmt("fit", "fit", fn, <<"longley">>, Undef, calls)
\* summary(fit)
RSummary == Stmt("summary", "", "", <<"fit">>, Undef, {"summary"})
\* predictions <- predict(fit, longley[,1:6])
RPredict == Stmt("predict", "predictions", "", <<"fit", "longley">>, Undef,
                 {"predict"})
\* mse <- mean((longley$Employed - predictions)^2)
RMse == Stmt("mse", "mse", "", <<"longley", "predictions">>, Undef, {"mean"})
\* print(mse)
RPrint == Stmt("rprint", "", "", <<"mse">>, Undef, {"print"})

Cells == {"norm", "t", "chi2"}
Recipes == {"cart", "bagging", "rf", "cubist"}

\* the arguments a distribution's functions take after the first
DfArgs(c) == IF c = "norm" THEN <<>> ELSE <<"df">>

\* a notebook cell: the probability it sets, whether it sets it at all, and
\* the name it hands to cdf
CellSource(c, prob, setsP, cdfArg) ==
    <<PyImport(c)>>
    \o (IF setsP THEN <<PyConst("p", prob)>> ELSE <<>>)
    \o (IF c = "norm" THEN <<>> ELSE <<PyConst("df", IntV(10))>>)
    \o <<PyPpf(c, <<"p">> \o DfArgs(c)),
         PyPrint("value"),
         PyCdf(c, <<cdfArg>> \o DfArgs(c)),
         PyPrint("p")>>

\* a cell that sets alpha where the probability belongs
CellAlpha(c) == CellSource(c, P05, TRUE, "value")
\* a cell that hands p, not value, to cdf
CellCdfOfP(c) == CellSource(c, P95, TRUE, "p")
\* the Gaussian cell relying on the p an earlier cell left
CellSharedP(c) == CellSource(c, P95, c # "norm", "value")

\* the three code cells of the notebook
Cell(c) == CellSource(c, P95, TRUE, "value")

\* the package a recipe loads, the fitting function and the functions the
\* fitting call names
RecipePkg(r) ==
    CASE r = "cart" -> "rpart"
      [] r = "bagging" -> "ipred"
      [] r = "rf" -> "randomForest"
      [] OTHER -> "Cubist"

RecipeFit(r) ==
    CASE r = "cart" -> RFit("rpart", {"rpart", "rpart.control"})
      [] r = "bagging" -> RFit("bagging", {"bagging", "rpart.control"})
      [] r = "rf" -> RFit("randomForest", {"randomForest"})
      [] OTHER -> RFit("cubist", {"cubist"})

\* the four recipes of the R document
Recipe(r) ==
    <<RLibrary(RecipePkg(r)), RData, RecipeFit(r), RSummary, RPredict, RMse,
      RPrint>>

Script(c) == IF c \in Cells THEN Cell(c) ELSE Recipe(c)

(***************************************************************************)
(* R: packages, the search path, the dataset, the mean squared error.      *)
(***************************************************************************)
\* functions found in a workspace with no package attached by the user
Builtins == {"library", "data", "summary", "predict", "mean", "print"}

\* what attaching a package makes visible
Exports(pkg) ==
    CASE pkg = "rpart" -> {"rpart", "rpart.control"}
      [] pkg = "ipred" -> {"bagging"}
      [] pkg = "randomForest" -> {"randomForest"}
      [] OTHER -> {"cubist"}

Visible(pkgs) == Builtins \cup UNION {Exports(pk) : pk \in pkgs}

\* longley$Employed, in thousandths
Employed ==
    <<60323, 61122, 60171, 61187, 63221, 63639, 64989, 63761,
      66019, 67857, 68169, 66513, 68655, 69564, 69331, 70551>>

Rows == 1..Len(Employed)

Longley == [kind |-> "data", Employed |-> Employed]

FitObj(fn) == [kind |-> "fit", model |-> fn]

Vec(v) == [kind |-> "vec", v |-> v]

\* the deviations of a prediction from the observed values that the model
\* draws from: none, one row off, two neighbouring rows off in opposite
\* directions, every row off by the same amount
ErrVals == (-MaxErr..MaxErr) \ {0}
ZeroErr == [i \in Rows |-> 0]
PredErrors ==
    {ZeroErr}
    \cup {[ZeroErr EXCEPT ![i] = e] : i \in Rows, e \in ErrVals}
    \cup {[i \in Rows |-> IF i = j THEN e ELSE IF i = j + 1 THEN -e ELSE 0] :
            j \in Rows \ {Len(Employed)}, e \in ErrVals}
    \cup {[i \in Rows |-> e] : e \in ErrVals}

RECURSIVE SumSeq(_)
SumSeq(s) == IF s = <<>> THEN 0 ELSE Head(s) + SumSeq(Tail(s))

\* mean(v), as the exact quotient sum / length
Mean(v) == [kind |-> "rat", num |-> SumSeq(v), den |-> Len(v)]

\* the error of each row, not squared
MeanErrorNoSquare(obs, pred) ==
    Mean([i \in 1..Len(obs) |-> obs[i] - pred[i]])

\* mean((obs - pred)^2)
MeanSquaredError(obs, pred) ==
    Mean([i \in 1..Len(obs) |-> (obs[i] - pred[i]) * (obs[i] - pred[i])])

\* a summary that writes nothing
SummaryOutputSilent(f) == <<>>

\* what summary(fit) at top level writes to standard output
SummaryOutput(f) == <<[kind |-> "summary", val |-> f]>>

\* what print(x) writes: a float when x is a number
PrintOutput(x) ==
    <<[kind |-> IF x.kind \in {"num", "rat"} THEN "float" ELSE "object",
       val |-> x]>>

(***************************************************************************)
(* The meaning of a statement on the globals of a session.                 *)
(***************************************************************************)
Names == {"norm", "t", "chi2", "p", "df", "value",
          "longley", "fit", "predictions", "mse"}

FreshEnv == [n \in Names |-> Undef]

\* the names a statement reads
Reads(s) ==
    {s.args[i] : i \in 1..Len(s.args)}
    \cup (IF s.k \in {"ppf", "cdf"} THEN {s.src} ELSE {})

\* the names a statement assigns
Writes(s) == IF s.target = "" THEN {} ELSE {s.target}

ArgVals(s, e) == [i \in 1..Len(s.args) |-> e[s.args[i]]]

\* a statement stops with an error: a name it reads is not bound, or a
\* function it calls is not on the search path
Fails(s, e, att) ==
    \/ \E n \in Reads(s) : e[n] = Undef
    \/ \E f \in s.calls : f \notin Visible(att)

\* the globals after the statement; dev is the deviation of the library's
\* prediction
EnvAfter(s, e, dev) ==
    CASE s.k = "import" -> [e EXCEPT ![s.target] = DistObj(s.src)]
      [] s.k = "const" -> [e EXCEPT ![s.target] = s.val]
      [] s.k = "ppf" -> [e EXCEPT ![s.target] = LibPpf(e[s.src], ArgVals(s, e))]
      [] s.k = "cdf" -> [e EXCEPT ![s.target] = LibCdf(e[s.src], ArgVals(s, e))]
      [] s.k = "data" -> [e EXCEPT ![s.target] = Longley]
      [] s.k = "fit" -> [e EXCEPT ![s.target] = FitObj(s.src)]
      [] s.k = "predict" ->
            [e EXCEPT ![s.target] =
                Vec([i \in Rows |-> e["longley"].Employed[i] + dev[i]])]
      [] s.k = "mse" ->
            [e EXCEPT ![s.target] =
                MeanSquaredError(e["longley"].Employed, e["predictions"].v)]
      [] OTHER -> e

\* what the statement writes to standard output
Output(s, e) ==
    CASE s.k \in {"pyprint", "rprint"} -> PrintOutput(e[s.args[1]])
      [] s.k = "summary" -> SummaryOutput(e["fit"])
      [] OTHER -> <<>>

\* a whole script run alone in a fresh session
RECURSIVE AloneFrom(_, _, _, _)
AloneFrom(script, i, e, out) ==
    IF i > Len(script) THEN [status |-> "done", stdout |-> out]
    ELSE IF Fails(script[i], e, {}) THEN [status |-> "failed", stdout |-> out]
    ELSE AloneFrom(script, i + 1, EnvAfter(script[i], e, ZeroErr),
                   out \o Output(script[i], e))

RunAlone(c) == AloneFrom(Script(c), 1, FreshEnv, <<>>)

(***************************************************************************)
(* The decision rules of the notebook's prose.  Each form is the set of    *)
(* decisions it assigns to a statistic.                                    *)
(***************************************************************************)
FailToReject == "fail_to_reject"
Reject == "reject"

\* the absolute value without the sign flip
AbsKeepSign(x) == x

Abs(x) == IF x < 0 THEN -x ELSE x

\* "less than or equal to the critical value: failed to be rejected.
\*  Otherwise it is rejected."
OneTailedRule(s, cv) ==
    (IF s <= cv THEN {FailToReject} ELSE {})
    \cup (IF ~(s <= cv) THEN {Reject} ELSE {})

\* "Test Statistic < Critical Value", "Test Statistic => Critical Value"
OneTailedSummary(s, cv) ==
    (IF s < cv THEN {FailToReject} ELSE {})
    \cup (IF s >= cv THEN {Reject} ELSE {})

\* "more than or equal to the lower critical value and less than or equal to
\*  the upper critical value": failure to reject; "less than the lower
\*  critical value and more than the upper critical value": rejection (the
\*  values of either kind)
TwoTailedRule(s, lo, up) ==
    (IF lo <= s /\ s <= up THEN {FailToReject} ELSE {})
    \cup (IF s < lo \/ s > up THEN {Reject} ELSE {})

\* "Lower CR < Test Statistic < Upper CR",
\* "Test Statistic <= Lower CR OR Test Statistic >= Upper CR"
TwoTailedSummary(s, lo, up) ==
    (IF lo < s /\ s < up THEN {FailToReject} ELSE {})
    \cup (IF s <= lo \/ s >= up THEN {Reject} ELSE {})

\* "|Test Statistic| < Upper Critical Value": failure to reject
Shortcut(s, up) == IF Abs(s) < up THEN {FailToReject} ELSE {}

(***************************************************************************)
(* State.                                                                  *)
(***************************************************************************)
VARIABLES
    lang,        \* "py": a Python kernel; "R": an R workspace; "prose"
    mode,        \* after an error: "halt" the script, or "continue" (pasted
                 \* into the R console, the next line still runs)
    cur,         \* the script that runs or ran last, "none" at first
    pc,          \* the statement to run next
    status,      \* "idle", "running", "done", "failed"
    env,         \* the globals of the session
    attached,    \* the packages on R's search path
    stdout,      \* what the current script wrote to standard output
    stderr,      \* the errors the current script reported
    trace,       \* per statement run by the current script: did it succeed
    fresh,       \* the names the current script assigned
    loaded,      \* the packages the current script loaded
    staleRead,   \* the current script read a name it had not assigned
    foreignCall, \* the current script called a function that neither is
                 \* built in nor comes from a package it loaded
    stat,        \* the test statistic
    lower,       \* the lower critical value
    upper,       \* the upper (or only) critical value
    applied,     \* the rule applied: "none", "one", "two", "shortcut"
    ruleSays,    \* the decisions of the rule as the prose states it
    summarySays  \* the decisions of the summary
                 \* (for "shortcut": of the shortcut check)

svars == <<lang, mode, cur, pc, status, env, attached, stdout, stderr, trace,
           fresh, loaded, staleRead, foreignCall>>
dvars == <<stat, lower, upper, applied, ruleSays, summarySays>>
vars == <<svars, dvars>>

NoScript ==
    /\ cur = "none" /\ pc = 0 /\ status = "idle"
    /\ env = FreshEnv /\ attached = {}
    /\ stdout = <<>> /\ stderr = <<>> /\ trace = <<>>
    /\ fresh = {} /\ loaded = {}
    /\ staleRead = FALSE /\ foreignCall = FALSE

NoDecision ==
    /\ stat = 0 /\ lower = 0 /\ upper = 0
    /\ applied = "none" /\ ruleSays = {} /\ summarySays = {}

\* a fresh kernel or a fresh workspace
Init ==
    /\ lang \in {"py", "R"}
    /\ mode \in (IF lang = "py" THEN {"halt"} ELSE {"halt", "continue"})
    /\ NoScript
    /\ NoDecision

(***************************************************************************)
(* Running scripts.                                                        *)
(***************************************************************************)
Begin(c) ==
    /\ status \in {"idle", "done", "failed"}
    /\ cur' = c /\ pc' = 1 /\ status' = "running"
    /\ stdout' = <<>> /\ stderr' = <<>> /\ trace' = <<>>
    /\ fresh' = {} /\ loaded' = {}
    /\ staleRead' = FALSE /\ foreignCall' = FALSE
    /\ UNCHANGED <<lang, mode, env, attached, dvars>>

\* run a code cell of the notebook
RunCell == lang = "py" /\ \E c \in Cells : Begin(c)

\* run a recipe of the R document
RunRecipe == lang = "R" /\ \E r \in Recipes : Begin(r)

Current == Script(cur)[pc]

AtStmt(k) == status = "running" /\ Current.k = k

\* the statement at pc runs; dev is the deviation of the library's prediction
Step(s, dev) ==
    LET bad == Fails(s, env, attached)
        last == pc = Len(Script(cur))
    IN /\ env' = IF bad THEN env ELSE EnvAfter(s, env, dev)
       /\ attached' = IF ~bad /\ s.k = "library"
                      THEN attached \cup {s.src} ELSE attached
       /\ loaded' = IF ~bad /\ s.k = "library"
                    THEN loaded \cup {s.src} ELSE loaded
       /\ stdout' = IF bad THEN stdout ELSE stdout \o Output(s, env)
       /\ stderr' = IF bad THEN Append(stderr, pc) ELSE stderr
       /\ trace' = Append(trace, ~bad)
       /\ fresh' = IF bad THEN fresh ELSE fresh \cup Writes(s)
       /\ staleRead' = (staleRead \/ \E n \in Reads(s) : n \notin fresh)
       /\ foreignCall' =
            (foreignCall \/ \E f \in s.calls : f \notin Visible(loaded))
       /\ IF bad /\ mode = "halt"
          THEN status' = "failed" /\ pc' = pc
          ELSE /\ pc' = pc + 1
               /\ status' = IF last THEN "done" ELSE "running"
       /\ UNCHANGED <<lang, mode, cur, dvars>>

\* from scipy.stats import norm
Import == AtStmt("import") /\ Step(Current, ZeroErr)
\* p = 0.95, df = 10
Assign == AtStmt("const") /\ Step(Current, ZeroErr)
\* value = norm.ppf(p)
Ppf == AtStmt("ppf") /\ Step(Current, ZeroErr)
\* p = norm.cdf(value)
Cdf == AtStmt("cdf") /\ Step(Current, ZeroErr)
\* print(value), print(p)
PrintPy == AtStmt("pyprint") /\ Step(Current, ZeroErr)

\* library(rpart)
Library == AtStmt("library") /\ Step(Current, ZeroErr)
\* data(longley)
Data == AtStmt("data") /\ Step(Current, ZeroErr)
\* fit <- rpart(...)
Fit == AtStmt("fit") /\ Step(Current, ZeroErr)
\* summary(fit)
Summary == AtStmt("summary") /\ Step(Current, ZeroErr)
\* predictions <- predict(fit, longley[,1:6])
Predict == AtStmt("predict") /\ \E dev \in PredErrors : Step(Current, dev)
\* mse <- mean((longley$Employed - predictions)^2)
Mse == AtStmt("mse") /\ Step(Current, ZeroErr)
\* print(mse)
PrintR == AtStmt("rprint") /\ Step(Current, ZeroErr)

Next ==
    \/ RunCell \/ Import \/ Assign \/ Ppf \/ Cdf \/ PrintPy
    \/ RunRecipe \/ Library \/ Data \/ Fit \/ Summary \/ Predict \/ Mse
    \/ PrintR

Spec == Init /\ [][Next]_vars

(***************************************************************************)
(* Applying the decision rules.                                            *)
(***************************************************************************)
Stats == -MaxStat..MaxStat

\* a statistic and two critical values, lower <= upper
InitDecision ==
    /\ lang = "prose" /\ mode = "halt"
    /\ NoScript
    /\ stat \in Stats /\ lower \in Stats /\ upper \in Stats
    /\ lower <= upper
    /\ applied = "none" /\ ruleSays = {} /\ summarySays = {}

\* the one-tailed test: the statistic against the upper critical value
ApplyOneTailed ==
    /\ applied = "none"
    /\ applied' = "one"
    /\ ruleSays' = OneTailedRule(stat, upper)
    /\ summarySays' = OneTailedSummary(stat, upper)
    /\ UNCHANGED <<stat, lower, upper, svars>>

\* the two-tailed test
ApplyTwoTailed ==
    /\ applied = "none"
    /\ applied' = "two"
    /\ ruleSays' = TwoTailedRule(stat, lower, upper)
    /\ summarySays' = TwoTailedSummary(stat, lower, upper)
    /\ UNCHANGED <<stat, lower, upper, svars>>

\* the two-tailed summary against its shortcut
ApplyShortcut ==
    /\ applied = "none"
    /\ applied' = "shortcut"
    /\ ruleSays' = TwoTailedSummary(stat, lower, upper)
    /\ summarySays' = Shortcut(stat, upper)
    /\ UNCHANGED <<stat, lower, upper, svars>>

NextDecision == ApplyOneTailed \/ ApplyTwoTailed \/ ApplyShortcut

SpecDecision == InitDecision /\ [][NextDecision]_vars

(***************************************************************************)
(* Comparing printed floats.                                               *)
(***************************************************************************)
\* a digit sequence, as a number, plus one: the digits and the carry out
RECURSIVE Incr(_)
Incr(ds) ==
    IF ds = <<>> THEN [c |-> 1, d |-> <<>>]
    ELSE LET n == Len(ds)
         IN IF ds[n] < 9 THEN [c |-> 0, d |-> [ds EXCEPT ![n] = ds[n] + 1]]
            ELSE LET r == Incr(SubSeq(ds, 1, n - 1))
                 IN [c |-> r.c, d |-> Append(r.d, 0)]

\* x rounded half up to k decimals
RoundTo(x, k) ==
    LET t == [i \in 1..k |-> IF i <= Len(x.frac) THEN x.frac[i] ELSE 0]
        r == Incr(t)
    IN IF Len(x.frac) > k /\ x.frac[k + 1] >= 5
       THEN Dec(x.ip + r.c, r.d)
       ELSE Dec(x.ip, t)

\* two floats that agree to 12 decimals (the recorded round trip of the t
\* cell, 0.949999999999923, is 7.7e-14 away from 0.95)
Agree(a, b) ==
    /\ a.kind = "num" /\ b.kind = "num"
    /\ RoundTo(a, 12) = RoundTo(b, 12)

\* the probability a cell sets before it calls ppf
ProbabilityOf(c) ==
    LET sc == Cell(c)
        i == CHOOSE j \in 1..Len(sc) : sc[j].k = "const" /\ sc[j].target = "p"
    IN sc[i].val

PyDone == lang = "py" /\ status = "done"

AllOk == \A i \in 1..Len(trace) : trace[i]

(***************************************************************************)
(* The claims.                                                             *)
(***************************************************************************)

C2_MseNonNegative ==
    (lang = "R" /\ "mse" \in fresh) =>
        LET m == env["mse"]
            pred == env["predictions"].v
        IN /\ m.den > 0
           /\ m.num >= 0
           /\ (m.num = 0 <=> pred = Employed)

\* a recipe has computed the error of predictions whose deviations cancel:
\* they sum to zero, the prediction is not perfect, the error is positive
C2_Witness ==
    /\ lang = "R" /\ status = "done" /\ "mse" \in fresh
    /\ env["predictions"].v # Employed
    /\ SumSeq([i \in Rows |-> Employed[i] - env["predictions"].v[i]]) = 0
    /\ env["mse"].num > 0

C4_FixedSequence ==
    /\ status # "failed"
    /\ AllOk
    /\ ~staleRead
    /\ Len(trace) <= Len(Script(IF cur = "none" THEN "norm" ELSE cur))
    /\ status = "done" => Len(trace) = Len(Script(cur))

\* C5: the summary of the one-tailed test decides as the rule it summarizes,
\* and either form assigns exactly one decision.
C5_OneTailedAgree ==
    applied = "one" =>
        /\ summarySays = ruleSays
        /\ Cardinality(ruleSays) = 1
        /\ Cardinality(summarySays) = 1

\* C6: the summary of the two-tailed test decides as the rule it summarizes,
\* and either form assigns exactly one decision.
C6_TwoTailedAgree ==
    applied = "two" =>
        /\ summarySays = ruleSays
        /\ Cardinality(ruleSays) = 1
        /\ Cardinality(summarySays) = 1

\* C7: with critical values symmetric around zero, the shortcut
\* |statistic| < upper reports failure to reject for exactly the statistics
\* for which lower < statistic < upper does.
C7_ShortcutAgrees ==
    (applied = "shortcut" /\ lower = -upper /\ upper >= 0) =>
        (FailToReject \in summarySays <=> FailToReject \in ruleSays)

\* a negative statistic beyond the lower critical value: the shortcut does
\* not report failure to reject
C7_Witness ==
    /\ applied = "shortcut" /\ lower = -upper /\ upper > 0
    /\ stat < lower
    /\ FailToReject \notin summarySays

\* C8: a recipe reads only names it assigned itself and calls only functions
\* that are built in or come from a package it loaded itself, so each of its
\* statements succeeds whatever ran before it in the workspace.
C8_SelfContained ==
    lang = "R" =>
        /\ ~foreignCall
        /\ ~staleRead
        /\ AllOk

\* C9: at p = 0.95 the cells print about 1.6449 (Gaussian), about 1.8125
\* (Student's t, 10 degrees of freedom) and about 18.307 (Chi-squared, 10
\* degrees of freedom).
C9_CriticalValues ==
    PyDone =>
        LET v == stdout[1].val
        IN /\ ProbabilityOf(cur) = P95
           /\ v.kind = "num"
           /\ CASE cur = "norm" -> RoundTo(v, 4) = Dec(1, <<6, 4, 4, 9>>)
                [] cur = "t" -> RoundTo(v, 4) = Dec(1, <<8, 1, 2, 5>>)
                [] OTHER -> RoundTo(v, 3) = Dec(18, <<3, 0, 7>>)

\* the Chi-squared cell has printed its critical value
C9_Witness ==
    /\ PyDone /\ cur = "chi2"
    /\ stdout[1].val = Chi2Ppf95

\* C10: in a kernel where other cells have run, in any order and any number
\* of times, a cell ends as it ends alone in a fresh kernel and prints the
\* same two values.
C10_OrderIndependent ==
    (lang = "py" /\ status \in {"done", "failed"}) =>
        /\ status = RunAlone(cur).status
        /\ stdout = RunAlone(cur).stdout

\* the Gaussian cell has finished in a kernel where both other cells ran
\* before it and left their df and p behind
C10_Witness ==
    /\ PyDone /\ cur = "norm"
    /\ env["t"] # Undef /\ env["chi2"] # Undef
    /\ env["df"] = IntV(10)
    /\ env["p"] = P95

====
